---- MODULE Spec2Model ----
(***************************************************************************)
(* Model of nsls2/fitting/base/element.py: the Element aggregate, the      *)
(* XrayLibWrap / XrayLibWrap_Energy read-only mappings and the search      *)
(* Element.line_near.                                                      *)
(*                                                                         *)
(* Strings are sequences of one-character strings so that str.lower() and  *)
(* sorted() are computed, not assumed.  Floats are fixed-point integers in *)
(* units of 0.1 KeV (energies) or arbitrary units (other quantities).      *)
(* The tables OTHER_VAL and XRAYLIB_MAP and the xraylib functions live in  *)
(* element_data / xraylib, outside element.py; they are modelled from the  *)
(* specification's description of them.                                    *)
(***************************************************************************)
EXTENDS Integers, Sequences, FiniteSets, TLC

VARIABLES
    elems,      \* the Element objects the caller holds, in construction order
    wraps,      \* the XrayLibWrap objects owned by the elements, by reference
    cswraps,    \* the XrayLibWrap_Energy objects the caller got from cs()
    assigned,   \* history: the energy last given to each of cswraps
    last,       \* the last operation, its arguments and its outcome
    calls       \* the physics-service invocations made by the last operation

vars == <<elems, wraps, cswraps, assigned, last, calls>>

(* ------------------------------ bounds --------------------------------- *)
\* number of objects (Elements and cross-section lookups) the caller holds
MaxObjects == 3

(* ------------------------------ strings -------------------------------- *)
\* ord() of the characters used, for the lexicographic order of sorted()
Ord(c) ==
    CASE c = "1" -> 49 [] c = "2" -> 50 [] c = "6" -> 54
      [] c = "A" -> 65 [] c = "C" -> 67 [] c = "E" -> 69 [] c = "F" -> 70
      [] c = "K" -> 75 [] c = "L" -> 76 [] c = "U" -> 85
      [] c = "a" -> 97 [] c = "c" -> 99 [] c = "e" -> 101 [] c = "f" -> 102
      [] c = "k" -> 107 [] c = "l" -> 108 [] c = "u" -> 117

\* str.lower(): every upper-case letter is replaced by its lower-case letter
lower(s) ==
    [i \in DOMAIN s |->
        CASE s[i] = "A" -> "a" [] s[i] = "C" -> "c" [] s[i] = "E" -> "e"
          [] s[i] = "F" -> "f" [] s[i] = "K" -> "k" [] s[i] = "L" -> "l"
          [] s[i] = "U" -> "u"
          [] OTHER -> s[i]]

\* s < t in Python's string order
RECURSIVE StrLess(_, _)
StrLess(s, t) ==
    IF t = <<>> THEN FALSE
    ELSE IF s = <<>> THEN TRUE
    ELSE IF Ord(Head(s)) # Ord(Head(t)) THEN Ord(Head(s)) < Ord(Head(t))
    ELSE StrLess(Tail(s), Tail(t))

\* sorted(list(keys)): ascending, by repeatedly taking the least key
RECURSIVE sorted(_)
sorted(S) ==
    IF S = {} THEN <<>>
    ELSE LET m == CHOOSE x \in S : \A y \in S \ {x} : StrLess(x, y)
         IN <<m>> \o sorted(S \ {m})

(* ------------------- element_data: reference tables -------------------- *)
\* rows of the static per-element reference table (symbol, Z, mass, rho);
\* mass in 0.001 g/mol, rho in 0.001 g/cm3
ElementRows ==
    { [sym |-> <<"C">>,      Z |-> 6,  mass |-> 12011, rho |-> 2267],
      [sym |-> <<"F","e">>,  Z |-> 26, mass |-> 55845, rho |-> 7874],
      [sym |-> <<"C","u">>,  Z |-> 29, mass |-> 63546, rho |-> 8960] }

\* an identifier handed to Element(): a string or an integer
StrId(s) == [isStr |-> TRUE, s |-> s, n |-> 0]
IntId(n) == [isStr |-> FALSE, s |-> <<>>, n |-> n]

\* OTHER_VAL: keyed by the lower-cased symbol and by the atomic number
OTHER_VAL_keys ==
    { StrId(lower(r.sym)) : r \in ElementRows } \cup { IntId(r.Z) : r \in ElementRows }

OTHER_VAL(k) ==
    LET r == CHOOSE row \in ElementRows :
                 k = StrId(lower(row.sym)) \/ k = IntId(row.Z)
    IN [sym |-> r.sym, Z |-> r.Z, mass |-> r.mass, rho |-> r.rho]

\* key -> xraylib code tables (keys are stored lower-cased)
line_dict == (<<"k","a","1">> :> -3) @@ (<<"l","a","1">> :> -90)
shell_dict == (<<"k">> :> 0) @@ (<<"l","1">> :> 1)

InfoTypes == {"lines", "binding_e", "jump", "yield", "cs"}

\* XRAYLIB_MAP[info_type] = (key table, xraylib function)
XRAYLIB_MAP(info_type) ==
    CASE info_type = "lines"     -> [map |-> line_dict,  func |-> "LineEnergy"]
      [] info_type = "cs"        -> [map |-> line_dict,  func |-> "CS_FluorLine_Kissel"]
      [] info_type = "binding_e" -> [map |-> shell_dict, func |-> "EdgeEnergy"]
      [] info_type = "jump"      -> [map |-> shell_dict, func |-> "JumpFactor"]
      [] info_type = "yield"     -> [map |-> shell_dict, func |-> "FluorYield"]

(* ------------------------ xraylib: the physics ------------------------- *)
\* an outcome of the physics service: a value, or QuantityUnavailable
Value(v) == [ok |-> TRUE, val |-> v]
Unavailable == [ok |-> FALSE, val |-> 0]

\* marks "no incident energy" in a call of a two-argument function
NoEnergy == -1

\* absorption edge (0.1 KeV) of shell code c for element Z
EdgeEnergy(Z, c) ==
    CASE Z = 6  /\ c = 0 -> Value(3)
      [] Z = 26 /\ c = 0 -> Value(71)
      [] Z = 26 /\ c = 1 -> Value(8)
      [] Z = 29 /\ c = 0 -> Value(90)
      [] Z = 29 /\ c = 1 -> Value(11)
      [] OTHER -> Unavailable

\* emission line energy (0.1 KeV) of line code c for element Z
LineEnergy(Z, c) ==
    CASE Z = 6  /\ c = -3  -> Value(3)
      [] Z = 26 /\ c = -3  -> Value(64)
      [] Z = 26 /\ c = -90 -> Value(7)
      [] Z = 29 /\ c = -3  -> Value(80)
      [] Z = 29 /\ c = -90 -> Value(9)
      [] OTHER -> Unavailable

\* fluorescence cross section: exactly 0 below the edge that excites the
\* line and for a line the element does not have, else falling with energy
CS_FluorLine_Kissel(Z, c, E) ==
    LET edge == IF c = -3 THEN EdgeEnergy(Z, 0) ELSE EdgeEnergy(Z, 1)
    IN IF E <= 0 THEN Unavailable
       ELSE IF ~edge.ok \/ E < edge.val THEN Value(0)
       ELSE Value(((Z * 1000) \div E) + 1)

JumpFactor(Z, c) ==
    IF EdgeEnergy(Z, c).ok THEN Value(10 + Z - (5 * c)) ELSE Unavailable

FluorYield(Z, c) ==
    IF EdgeEnergy(Z, c).ok THEN Value((Z * 10) \div (1 + (9 * c))) ELSE Unavailable

\* self._func(*args)
xraylib(func, Z, c, E) ==
    CASE func = "LineEnergy"          -> LineEnergy(Z, c)
      [] func = "CS_FluorLine_Kissel" -> CS_FluorLine_Kissel(Z, c, E)
      [] func = "EdgeEnergy"          -> EdgeEnergy(Z, c)
      [] func = "JumpFactor"          -> JumpFactor(Z, c)
      [] func = "FluorYield"          -> FluorYield(Z, c)

\* the record of one invocation of the physics service
Call(func, Z, c, E) == [func |-> func, Z |-> Z, code |-> c, E |-> E]

(* ----------------------------- XrayLibWrap ----------------------------- *)
\* outcome of one operation: status is "ok" or the exception raised
\* ("KeyError" = KeyNotFound / UnknownElement, "QuantityUnavailable"),
\* val a float, items a list of (key, value), log the service invocations
Outcome(status, val, items, log) ==
    [status |-> status, val |-> val, items |-> items, log |-> log]

\* XrayLibWrap.__init__(element, info_type)
XrayLibWrap(element, info_type) ==
    [cls             |-> "XrayLibWrap",
     element         |-> element,
     info_type       |-> info_type,
     map             |-> XRAYLIB_MAP(info_type).map,
     func            |-> XRAYLIB_MAP(info_type).func,
     keys            |-> sorted(DOMAIN XRAYLIB_MAP(info_type).map),
     incident_energy |-> NoEnergy]

\* XrayLibWrap_Energy.__init__(element, info_type, incident_energy)
XrayLibWrap_Energy(element, info_type, incident_energy) ==
    [XrayLibWrap(element, info_type) EXCEPT
        !.cls = "XrayLibWrap_Energy",
        !.incident_energy = incident_energy]

\* a lookup that answers 0 for a key it does not know
XrayLibWrap_getitem_default(self, key) ==
    IF lower(key) \notin DOMAIN self.map
    THEN Outcome("ok", 0, <<>>, <<>>)
    ELSE LET code == self.map[lower(key)]
             r == xraylib(self.func, self.element, code, NoEnergy)
         IN Outcome(IF r.ok THEN "ok" ELSE "QuantityUnavailable", r.val, <<>>,
                    <<Call(self.func, self.element, code, NoEnergy)>>)

\* XrayLibWrap.__getitem__(key)
XrayLibWrap_getitem(self, key) ==
    IF lower(key) \notin DOMAIN self.map
    THEN Outcome("KeyError", 0, <<>>, <<>>)
    ELSE LET code == self.map[lower(key)]
             r == xraylib(self.func, self.element, code, NoEnergy)
         IN Outcome(IF r.ok THEN "ok" ELSE "QuantityUnavailable", r.val, <<>>,
                    <<Call(self.func, self.element, code, NoEnergy)>>)

\* a lookup that takes the key as it is written
XrayLibWrap_Energy_getitem_cased(self, key) ==
    IF key \notin DOMAIN self.map
    THEN Outcome("KeyError", 0, <<>>, <<>>)
    ELSE LET code == self.map[key]
             r == xraylib(self.func, self.element, code, self.incident_energy)
         IN Outcome(IF r.ok THEN "ok" ELSE "QuantityUnavailable", r.val, <<>>,
                    <<Call(self.func, self.element, code, self.incident_energy)>>)

\* XrayLibWrap_Energy.__getitem__(key)
XrayLibWrap_Energy_getitem(self, key) ==
    IF lower(key) \notin DOMAIN self.map
    THEN Outcome("KeyError", 0, <<>>, <<>>)
    ELSE LET code == self.map[lower(key)]
             r == xraylib(self.func, self.element, code, self.incident_energy)
         IN Outcome(IF r.ok THEN "ok" ELSE "QuantityUnavailable", r.val, <<>>,
                    <<Call(self.func, self.element, code, self.incident_energy)>>)

\* self[key], dispatched on the class of self
getitem(self, key) ==
    IF self.cls = "XrayLibWrap_Energy"
    THEN XrayLibWrap_Energy_getitem(self, key)
    ELSE XrayLibWrap_getitem(self, key)

\* XrayLibWrap.__iter__()
XrayLibWrap_iter(self) == self.keys

\* XrayLibWrap.__len__()
XrayLibWrap_len(self) == Len(self.keys)

\* Mapping.items(): (key, self[key]) for key in self, up to the first
\* exception; ks is what is left of the iteration
RECURSIVE items_from(_, _, _, _)
items_from(self, ks, acc, log) ==
    IF ks = <<>> THEN Outcome("ok", 0, acc, log)
    ELSE LET g == getitem(self, Head(ks))
         IN IF g.status # "ok"
            THEN Outcome(g.status, 0, <<>>, log \o g.log)
            ELSE items_from(self, Tail(ks), Append(acc, <<Head(ks), g.val>>),
                            log \o g.log)

\* an enumeration that loses the first key
XrayLibWrap_all_skip(self) ==
    items_from(self, Tail(XrayLibWrap_iter(self)), <<>>, <<>>)

\* XrayLibWrap.all: list(self.items())
XrayLibWrap_all(self) == items_from(self, XrayLibWrap_iter(self), <<>>, <<>>)

(* ------------------------------- Element ------------------------------- *)
Abs(x) == IF x < 0 THEN -x ELSE x

\* the lookup attributes of an Element and the info_type each is built with
Attrs == {"emission_line", "bind_energy", "jump_factor", "fluor_yield"}

\* the attributes Element.__init__ sets from the table row elem_dict; the
\* four new lookups get the references base+1 .. base+4
Element_attributes(elem_dict, base) ==
    [name          |-> elem_dict.sym,
     z             |-> elem_dict.Z,
     mass          |-> elem_dict.mass,
     density       |-> elem_dict.rho,
     emission_line |-> base + 1,
     bind_energy   |-> base + 2,
     jump_factor   |-> base + 3,
     fluor_yield   |-> base + 4]

\* the four lookups Element.__init__ constructs
Element_lookups(z) ==
    << XrayLibWrap(z, "lines"), XrayLibWrap(z, "binding_e"),
       XrayLibWrap(z, "jump"), XrayLibWrap(z, "yield") >>

\* a constructor that finds an unknown identifier a default row
Element_init_default(element, base) ==
    LET key == IF element.isStr THEN StrId(lower(element.s)) ELSE element
        elem_dict == IF key \in OTHER_VAL_keys THEN OTHER_VAL(key)
                     ELSE OTHER_VAL(IntId(6))
    IN [status  |-> "ok",
        self    |-> << Element_attributes(elem_dict, base) >>,
        lookups |-> Element_lookups(elem_dict.Z)]

\* a constructor that looks the identifier up as it is written
Element_init_cased(element, base) ==
    IF element \notin OTHER_VAL_keys
    THEN [status |-> "KeyError", self |-> <<>>, lookups |-> <<>>]
    ELSE [status  |-> "ok",
          self    |-> << Element_attributes(OTHER_VAL(element), base) >>,
          lookups |-> Element_lookups(OTHER_VAL(element).Z)]

\* a constructor whose lookups are those of the first Element constructed
Element_init_shared(element, base) ==
    LET key == IF element.isStr THEN StrId(lower(element.s)) ELSE element
    IN IF key \notin OTHER_VAL_keys
       THEN [status |-> "KeyError", self |-> <<>>, lookups |-> <<>>]
       ELSE [status  |-> "ok",
             self    |-> << Element_attributes(OTHER_VAL(key), 0) >>,
             lookups |-> Element_lookups(OTHER_VAL(key).Z)]

\* Element.__init__(element): base is the number of lookups allocated so far
Element_init(element, base) ==
    LET key == IF element.isStr THEN StrId(lower(element.s)) ELSE element
    IN IF key \notin OTHER_VAL_keys
       THEN [status |-> "KeyError", self |-> <<>>, lookups |-> <<>>]
       ELSE LET elem_dict == OTHER_VAL(key)
            IN [status  |-> "ok",
                self    |-> << Element_attributes(elem_dict, base) >>,
                lookups |-> Element_lookups(elem_dict.Z)]

\* Element.cs(incident_energy)
Element_cs(self, incident_energy) ==
    XrayLibWrap_Energy(self.z, "cs", incident_energy)

\* Element.__eq__
Element_eq(self, other) == self.z = other.z

\* an order by element name
Element_lt_by_name(self, other) == StrLess(self.name, other.name)

\* Element.__lt__
Element_lt(self, other) == self.z < other.z

\* functools.total_ordering: the comparisons completed from __lt__ and __eq__
Element_le(self, other) == Element_lt(self, other) \/ Element_eq(self, other)
Element_gt(self, other) == ~(Element_lt(self, other) \/ Element_eq(self, other))
Element_ge(self, other) == ~Element_lt(self, other)

\* the search range closed instead of open
in_range_closed(v, energy, delta_e) == Abs(v - energy) <= delta_e

\* np.abs(v - energy) < delta_e
in_range(v, energy, delta_e) == Abs(v - energy) < delta_e

\* out_dict[k] = v on a dict kept as a list of (key, value) in insertion order
dict_set(d, k, v) ==
    IF \E i \in DOMAIN d : d[i][1] = k
    THEN [i \in DOMAIN d |-> IF d[i][1] = k THEN <<k, v>> ELSE d[i]]
    ELSE Append(d, <<k, v>>)

\* the loop of Element.line_near over what is left (ks) of the iteration of
\* self.emission_line: iteritems computes v = emission_line[k], then the
\* body asks self.cs(incident_energy)[k]
RECURSIVE line_near_loop(_, _, _, _, _, _, _, _)
line_near_loop(self, emission_line, ks, energy, delta_e, incident_energy, out_dict, log) ==
    IF ks = <<>> THEN Outcome("ok", 0, out_dict, log)
    ELSE LET k == Head(ks)
             v == getitem(emission_line, k)
         IN IF v.status # "ok"
            THEN Outcome(v.status, 0, <<>>, log \o v.log)
            ELSE LET c == getitem(Element_cs(self, incident_energy), k)
                     log2 == log \o v.log \o c.log
                 IN IF c.status # "ok"
                    THEN Outcome(c.status, 0, <<>>, log2)
                    ELSE IF c.val = 0
                    THEN line_near_loop(self, emission_line, Tail(ks), energy,
                                        delta_e, incident_energy, out_dict, log2)
                    ELSE IF in_range(v.val, energy, delta_e)
                    THEN line_near_loop(self, emission_line, Tail(ks), energy,
                                        delta_e, incident_energy,
                                        dict_set(out_dict, k, v.val), log2)
                    ELSE line_near_loop(self, emission_line, Tail(ks), energy,
                                        delta_e, incident_energy, out_dict, log2)

\* a loop that asks the cross-section first and the emission line only
\* for a key that is excited
RECURSIVE line_near_loop_lazy(_, _, _, _, _, _, _, _)
line_near_loop_lazy(self, emission_line, ks, energy, delta_e, incident_energy, out_dict, log) ==
    IF ks = <<>> THEN Outcome("ok", 0, out_dict, log)
    ELSE LET k == Head(ks)
             c == getitem(Element_cs(self, incident_energy), k)
         IN IF c.status # "ok"
            THEN Outcome(c.status, 0, <<>>, log \o c.log)
            ELSE IF c.val = 0
            THEN line_near_loop_lazy(self, emission_line, Tail(ks), energy,
                                     delta_e, incident_energy, out_dict,
                                     log \o c.log)
            ELSE LET v == getitem(emission_line, k)
                     log2 == log \o c.log \o v.log
                 IN IF v.status # "ok"
                    THEN Outcome(v.status, 0, <<>>, log2)
                    ELSE line_near_loop_lazy(self, emission_line, Tail(ks), energy,
                             delta_e, incident_energy,
                             IF in_range(v.val, energy, delta_e)
                             THEN dict_set(out_dict, k, v.val) ELSE out_dict,
                             log2)

Element_line_near_lazy(self, emission_line, energy, delta_e, incident_energy) ==
    line_near_loop_lazy(self, emission_line, XrayLibWrap_iter(emission_line),
                        energy, delta_e, incident_energy, <<>>, <<>>)

\* Element.line_near(energy, delta_e, incident_energy)
Element_line_near(self, emission_line, energy, delta_e, incident_energy) ==
    line_near_loop(self, emission_line, XrayLibWrap_iter(emission_line),
                   energy, delta_e, incident_energy, <<>>, <<>>)

(* ------------------------------- inputs -------------------------------- *)
Idents ==
    { StrId(<<"c">>), StrId(<<"C">>),
      StrId(<<"f","e">>), StrId(<<"F","e">>), StrId(<<"F","E">>),
      StrId(<<"c","u">>), StrId(<<"C","u">>), StrId(<<"C","U">>),
      StrId(<<"c","f">>), StrId(<<"2","6">>), StrId(<<>>),
      IntId(6), IntId(26), IntId(29), IntId(0), IntId(30) }

Keys ==
    { <<"k","a","1">>, <<"K","a","1">>, <<"K","A","1">>, <<"l","a","1">>,
      <<"k">>, <<"K">>, <<"l","1">>, <<"k","a">> }

\* incident energies, target energies and tolerances (0.1 KeV)
IncEnergies == {0, 80, 100}
Energies == {78, 80}
Deltas == {2, 3, 75}

(* ------------------------------- state --------------------------------- *)
NoLast ==
    [op |-> "none", status |-> "ok", self |-> 0, other |-> 0, attr |-> "",
     key |-> <<>>, ident |-> IntId(0), val |-> 0, items |-> <<>>,
     args |-> <<>>, cmp |-> <<>>]

Init ==
    /\ elems = <<>>
    /\ wraps = <<>>
    /\ cswraps = <<>>
    /\ assigned = <<>>
    /\ last = NoLast
    /\ calls = <<>>

\* the caller is between two operations
Idle == last.op = "none"

\* the caller may hold one more object
HasRoom == Len(elems) + Len(cswraps) < MaxObjects

\* the lookup a static operation is applied to: elems[i].<attr>
Lookup(i, attr) == wraps[elems[i][attr]]

(* ------------------------------ operations ----------------------------- *)
\* e = Element(element)
NewElement(element) ==
    LET r == Element_init(element, Len(wraps))
    IN /\ Idle
       /\ r.status = "ok" => HasRoom
       /\ elems' = elems \o r.self
       /\ wraps' = wraps \o r.lookups
       /\ last' = [NoLast EXCEPT !.op = "Element", !.status = r.status,
                                 !.ident = element]
       /\ calls' = <<>>
       /\ UNCHANGED <<cswraps, assigned>>

\* e.name, e.Z, e.mass, e.density
Property(i, p) ==
    /\ Idle
    /\ last' = [NoLast EXCEPT !.op = "property", !.self = i, !.attr = p,
                   !.key = IF p = "name" THEN elems[i].name ELSE <<>>,
                   !.val = IF p = "name" THEN 0 ELSE elems[i][p]]
    /\ calls' = <<>>
    /\ UNCHANGED <<elems, wraps, cswraps, assigned>>

\* e.<attr>[key]
GetItem(i, attr, key) ==
    LET r == getitem(Lookup(i, attr), key)
    IN /\ Idle
       /\ last' = [NoLast EXCEPT !.op = "getitem", !.status = r.status,
                      !.self = i, !.attr = attr, !.key = key, !.val = r.val]
       /\ calls' = r.log
       /\ UNCHANGED <<elems, wraps, cswraps, assigned>>

\* c[key] for a cross-section lookup c
GetItemCS(j, key) ==
    LET r == getitem(cswraps[j], key)
    IN /\ Idle
       /\ last' = [NoLast EXCEPT !.op = "getitem", !.status = r.status,
                      !.self = j, !.attr = "cs", !.key = key, !.val = r.val]
       /\ calls' = r.log
       /\ UNCHANGED <<elems, wraps, cswraps, assigned>>

\* e.<attr>.all
All(i, attr) ==
    LET r == XrayLibWrap_all(Lookup(i, attr))
    IN /\ Idle
       /\ last' = [NoLast EXCEPT !.op = "all", !.status = r.status,
                      !.self = i, !.attr = attr, !.items = r.items]
       /\ calls' = r.log
       /\ UNCHANGED <<elems, wraps, cswraps, assigned>>

\* c.all
AllCS(j) ==
    LET r == XrayLibWrap_all(cswraps[j])
    IN /\ Idle
       /\ last' = [NoLast EXCEPT !.op = "all", !.status = r.status,
                      !.self = j, !.attr = "cs", !.items = r.items]
       /\ calls' = r.log
       /\ UNCHANGED <<elems, wraps, cswraps, assigned>>

\* list(e.<attr>) and len(e.<attr>)
Iter(i, attr) ==
    /\ Idle
    /\ last' = [NoLast EXCEPT !.op = "iter", !.self = i, !.attr = attr,
                   !.items = XrayLibWrap_iter(Lookup(i, attr)),
                   !.val = XrayLibWrap_len(Lookup(i, attr))]
    /\ calls' = <<>>
    /\ UNCHANGED <<elems, wraps, cswraps, assigned>>

\* list(c) and len(c)
IterCS(j) ==
    /\ Idle
    /\ last' = [NoLast EXCEPT !.op = "iter", !.self = j, !.attr = "cs",
                   !.items = XrayLibWrap_iter(cswraps[j]),
                   !.val = XrayLibWrap_len(cswraps[j])]
    /\ calls' = <<>>
    /\ UNCHANGED <<elems, wraps, cswraps, assigned>>

\* c = e.cs(incident_energy), kept by the caller
Cs(i, incident_energy) ==
    /\ Idle
    /\ HasRoom
    /\ cswraps' = Append(cswraps, Element_cs(elems[i], incident_energy))
    /\ assigned' = Append(assigned, incident_energy)
    /\ last' = [NoLast EXCEPT !.op = "cs", !.self = i,
                   !.args = <<incident_energy>>]
    /\ calls' = <<>>
    /\ UNCHANGED <<elems, wraps>>

\* a setter that writes the energy of every lookup of the same element
incident_energy_setter_shared(ws, j, val) ==
    [n \in DOMAIN ws |->
        IF ws[n].element = ws[j].element
        THEN [ws[n] EXCEPT !.incident_energy = val] ELSE ws[n]]

\* XrayLibWrap_Energy.incident_energy setter on the object cswraps[j]
incident_energy_setter(ws, j, val) ==
    [ws EXCEPT ![j].incident_energy = val]

\* c.incident_energy = val
SetIncidentEnergy(j, val) ==
    /\ Idle
    /\ cswraps' = incident_energy_setter(cswraps, j, val)
    /\ assigned' = [assigned EXCEPT ![j] = val]
    /\ last' = [NoLast EXCEPT !.op = "set_incident_energy", !.self = j,
                   !.args = <<val, cswraps[j].incident_energy>>]
    /\ calls' = <<>>
    /\ UNCHANGED <<elems, wraps>>

\* c.incident_energy
GetIncidentEnergy(j) ==
    /\ Idle
    /\ last' = [NoLast EXCEPT !.op = "incident_energy", !.self = j,
                   !.val = cswraps[j].incident_energy]
    /\ calls' = <<>>
    /\ UNCHANGED <<elems, wraps, cswraps, assigned>>

\* a == b, a < b, a <= b, a > b, a >= b
Compare(a, b) ==
    /\ Idle
    /\ last' = [NoLast EXCEPT !.op = "compare", !.self = a, !.other = b,
                   !.cmp = << Element_eq(elems[a], elems[b]),
                              Element_lt(elems[a], elems[b]),
                              Element_le(elems[a], elems[b]),
                              Element_gt(elems[a], elems[b]),
                              Element_ge(elems[a], elems[b]) >>]
    /\ calls' = <<>>
    /\ UNCHANGED <<elems, wraps, cswraps, assigned>>

\* e.line_near(energy, delta_e, incident_energy)
LineNear(i, energy, delta_e, incident_energy) ==
    LET r == Element_line_near(elems[i], wraps[elems[i].emission_line],
                               energy, delta_e, incident_energy)
    IN /\ Idle
       /\ last' = [NoLast EXCEPT !.op = "line_near", !.status = r.status,
                      !.self = i, !.items = r.items,
                      !.args = <<energy, delta_e, incident_energy>>]
       /\ calls' = r.log
       /\ UNCHANGED <<elems, wraps, cswraps, assigned>>

\* the caller takes the outcome of the operation; the next one may start
Return ==
    /\ ~Idle
    /\ last' = NoLast
    /\ calls' = <<>>
    /\ UNCHANGED <<elems, wraps, cswraps, assigned>>

Next ==
    \/ \E element \in Idents : NewElement(element)
    \/ \E i \in DOMAIN elems, p \in {"name", "z", "mass", "density"} : Property(i, p)
    \/ \E i \in DOMAIN elems, attr \in Attrs, key \in Keys : GetItem(i, attr, key)
    \/ \E j \in DOMAIN cswraps, key \in Keys : GetItemCS(j, key)
    \/ \E i \in DOMAIN elems, attr \in Attrs : All(i, attr)
    \/ \E j \in DOMAIN cswraps : AllCS(j)
    \/ \E i \in DOMAIN elems, attr \in Attrs : Iter(i, attr)
    \/ \E j \in DOMAIN cswraps : IterCS(j)
    \/ \E i \in DOMAIN elems, e \in IncEnergies : Cs(i, e)
    \/ \E j \in DOMAIN cswraps, e \in IncEnergies : SetIncidentEnergy(j, e)
    \/ \E j \in DOMAIN cswraps : GetIncidentEnergy(j)
    \/ \E a \in DOMAIN elems, b \in DOMAIN elems : Compare(a, b)
    \/ \E i \in DOMAIN elems, energy \in Energies, delta_e \in Deltas,
          e \in IncEnergies : LineNear(i, energy, delta_e, e)
    \/ Return

Spec == Init /\ [][Next]_vars

(* ============================== properties ============================= *)
Range(f) == { f[x] : x \in DOMAIN f }

\* the lookup the last operation was applied to
Receiver ==
    IF last.attr = "cs" THEN cswraps[last.self] ELSE Lookup(last.self, last.attr)

\* the entry of key k in a list of (key, value) pairs
HasKey(d, k) == \E n \in DOMAIN d : d[n][1] = k
ValueOf(d, k) == d[CHOOSE n \in DOMAIN d : d[n][1] = k][2]

(* ------------------------------- C1 ------------------------------------ *)
\* C1: when line_near(energy, delta_e, incident_energy) returns, a key k of
\* emission_line is in the result iff cs(incident_energy)[k] is not exactly 0
\* and |emission_line[k] - energy| < delta_e (strictly); an included key is
\* mapped to emission_line[k]; no key occurs twice and nothing else is in
\* the result.
C1_LineNearResult ==
    (last.op = "line_near" /\ last.status = "ok") =>
        LET e == elems[last.self]
            em == wraps[e.emission_line]
            energy == last.args[1]
            delta_e == last.args[2]
            c == Element_cs(e, last.args[3])
            out == last.items
        IN /\ \A k \in Range(XrayLibWrap_iter(em)) :
                /\ HasKey(out, k) <=>
                      (/\ getitem(c, k).val # 0
                       /\ Abs(getitem(em, k).val - energy) < delta_e)
                /\ HasKey(out, k) => ValueOf(out, k) = getitem(em, k).val
           /\ \A n \in DOMAIN out : out[n][1] \in Range(XrayLibWrap_iter(em))
           /\ \A n, m \in DOMAIN out : out[n][1] = out[m][1] => n = m

\* a search that returned a line while leaving out a line whose energy is
\* the target itself, because its cross-section is exactly 0
C1_Witness ==
    /\ last.op = "line_near" /\ last.status = "ok"
    /\ last.items # <<>>
    /\ \E k \in Range(XrayLibWrap_iter(wraps[elems[last.self].emission_line])) :
          /\ getitem(wraps[elems[last.self].emission_line], k).val = last.args[1]
          /\ getitem(Element_cs(elems[last.self], last.args[3]), k).val = 0
          /\ ~HasKey(last.items, k)

(* ------------------------------- C10 ----------------------------------- *)
\* the physics-service outcome of a logged call
Replay(call) == xraylib(call.func, call.Z, call.code, call.E)

\* C10 as claimed: in line_near the cross-section of a key is computed
\* first and the emission-line energy of that key is requested only when
\* that cross-section is not exactly 0.
C10_CrossSectionFirst ==
    last.op = "line_near" =>
        \A n \in DOMAIN calls :
            calls[n].func = "LineEnergy" =>
                /\ n > 1
                /\ calls[n-1].func = "CS_FluorLine_Kissel"
                /\ calls[n-1].code = calls[n].code
                /\ Replay(calls[n-1]).ok
                /\ Replay(calls[n-1]).val # 0

\* C10 amended: for each emission-line key in keys() order line_near
\* requests the emission-line energy first and the cross-section of that
\* key second, whatever the cross-section is; the search returns only if
\* every one of these calls succeeded, and otherwise stops at the first
\* call that failed and fails with it.
C10_LineEnergyFirst ==
    last.op = "line_near" =>
        LET e == elems[last.self]
            em == wraps[e.emission_line]
            ks == XrayLibWrap_iter(em)
        IN /\ Len(calls) <= 2 * Len(ks)
           /\ \A n \in DOMAIN calls :
                IF n % 2 = 1
                THEN calls[n] = Call("LineEnergy", e.z, line_dict[ks[(n + 1) \div 2]],
                                     NoEnergy)
                ELSE calls[n] = Call("CS_FluorLine_Kissel", e.z,
                                     line_dict[ks[n \div 2]], last.args[3])
           /\ \A n \in DOMAIN calls : n < Len(calls) => Replay(calls[n]).ok
           /\ last.status = "ok" =>
                /\ Len(calls) = 2 * Len(ks)
                /\ \A n \in DOMAIN calls : Replay(calls[n]).ok
           /\ last.status # "ok" =>
                /\ last.status = "QuantityUnavailable"
                /\ calls # <<>>
                /\ ~Replay(calls[Len(calls)]).ok

\* a search that failed in the emission-line computation of a key whose
\* cross-section at that incident energy is exactly 0
C10_Witness ==
    /\ last.op = "line_near"
    /\ last.status = "QuantityUnavailable"
    /\ calls # <<>>
    /\ calls[Len(calls)].func = "LineEnergy"
    /\ LET z == calls[Len(calls)].Z
           c == CS_FluorLine_Kissel(z, calls[Len(calls)].code, last.args[3])
       IN c.ok /\ c.val = 0

(* ------------------------------- C2 ------------------------------------ *)
\* C2: every cross-section lookup carries the energy last given to that
\* same instance (at construction or by assignment), a c[key] or c.all on it
\* passes exactly that energy to the physics service, and so an assignment
\* on one instance leaves every other instance as it was.
C2_EnergyPerInstance ==
    /\ Len(assigned) = Len(cswraps)
    /\ \A j \in DOMAIN cswraps : cswraps[j].incident_energy = assigned[j]
    /\ (last.op \in {"getitem", "all"} /\ last.attr = "cs") =>
          \A n \in DOMAIN calls :
              /\ calls[n].func = "CS_FluorLine_Kissel"
              /\ calls[n].Z = cswraps[last.self].element
              /\ calls[n].E = assigned[last.self]
    /\ (last.op = "getitem" /\ last.attr = "cs" /\ last.status # "KeyError") =>
          /\ calls = << Call("CS_FluorLine_Kissel", cswraps[last.self].element,
                             line_dict[lower(last.key)],
                             assigned[last.self]) >>
          /\ last.status = "ok" =>
                last.val = CS_FluorLine_Kissel(cswraps[last.self].element,
                                               line_dict[lower(last.key)],
                                               assigned[last.self]).val

\* a lookup that had E1 and was just given E2: a get on it now returns the
\* value at E2, which differs from the one at E1, while a second lookup of
\* the same element still has another energy
C2_Witness ==
    /\ last.op = "set_incident_energy"
    /\ LET me == last.self
           E2 == last.args[1]
           E1 == last.args[2]
           key == <<"l","a","1">>
       IN /\ E1 # E2
          /\ getitem(cswraps[me], key).status = "ok"
          /\ getitem(cswraps[me], key).val
                = CS_FluorLine_Kissel(cswraps[me].element, line_dict[key], E2).val
          /\ CS_FluorLine_Kissel(cswraps[me].element, line_dict[key], E1).ok
          /\ getitem(cswraps[me], key).val
                # CS_FluorLine_Kissel(cswraps[me].element, line_dict[key], E1).val
          /\ \E j \in DOMAIN cswraps :
                /\ j # me
                /\ cswraps[j].element = cswraps[me].element
                /\ cswraps[j].incident_energy = E1

(* ------------------------------- C3 ------------------------------------ *)
\* C3: all never fails on a key of its own key list; when it returns it
\* returns exactly len() pairs, the n-th pair carrying the n-th key of the
\* iteration (so no key is repeated or missing) and the value a direct
\* self[key] returns; it fails only if a direct self[key] fails for a key.
C3_AllMatchesGet ==
    last.op = "all" =>
        LET w == Receiver
            ks == XrayLibWrap_iter(w)
        IN /\ \A k \in Range(ks) : getitem(w, k).status # "KeyError"
           /\ \A n, m \in DOMAIN ks : ks[n] = ks[m] => n = m
           /\ last.status # "KeyError"
           /\ last.status = "ok" =>
                /\ Len(last.items) = XrayLibWrap_len(w)
                /\ \A n \in DOMAIN last.items :
                      /\ last.items[n][1] = ks[n]
                      /\ getitem(w, ks[n]).status = "ok"
                      /\ last.items[n][2] = getitem(w, ks[n]).val
           /\ last.status # "ok" =>
                \E k \in Range(ks) : getitem(w, k).status = last.status

\* an all that returned more than one pair, with values that differ
C3_Witness ==
    /\ last.op = "all" /\ last.status = "ok"
    /\ Len(last.items) > 1
    /\ last.items[1][2] # last.items[2][2]

(* ------------------------------- C4 ------------------------------------ *)
\* the key table of the category a lookup attribute belongs to
TableOf(attr) ==
    CASE attr = "emission_line" -> XRAYLIB_MAP("lines").map
      [] attr = "bind_energy"   -> XRAYLIB_MAP("binding_e").map
      [] attr = "jump_factor"   -> XRAYLIB_MAP("jump").map
      [] attr = "fluor_yield"   -> XRAYLIB_MAP("yield").map
      [] attr = "cs"            -> XRAYLIB_MAP("cs").map

\* C4: in every category, self[key] with a key whose lower-cased form is not
\* in the category's table raises KeyError, returns no value and does not
\* invoke the physics service.
C4_UnknownKey ==
    (last.op = "getitem" /\ lower(last.key) \notin DOMAIN TableOf(last.attr)) =>
        /\ last.status = "KeyError"
        /\ calls = <<>>

\* a cross-section lookup asked for a shell name in upper case
C4_Witness ==
    /\ last.op = "getitem" /\ last.attr = "cs"
    /\ last.key = <<"K">>
    /\ last.status = "KeyError"

(* ------------------------------- C8 ------------------------------------ *)
\* s and t are the same string up to the case of the letters
EqualIgnoringCase(s, t) ==
    /\ Len(s) = Len(t)
    /\ \A n \in DOMAIN s :
          \/ s[n] = t[n]
          \/ /\ Ord(s[n]) >= 65 /\ Ord(t[n]) >= 65
             /\ Ord(s[n]) - Ord(t[n]) \in {32, -32}

\* C8: self[key] has the same outcome for every letter-casing of key: the
\* same value from the same service invocation, or KeyError for all.
C8_CaseInsensitiveGet ==
    last.op = "getitem" =>
        \A key2 \in Keys :
            EqualIgnoringCase(key2, last.key) =>
                /\ getitem(Receiver, key2).status = last.status
                /\ getitem(Receiver, key2).val = last.val
                /\ getitem(Receiver, key2).log = calls

\* an upper-case key that returned a value
C8_Witness ==
    /\ last.op = "getitem"
    /\ last.key = <<"K","A","1">>
    /\ last.status = "ok"
    /\ last.val # 0

(* ------------------------------- C5, C6 -------------------------------- *)
\* the identifier names the element of table row r: its symbol in any
\* letter case, or its atomic number
Denotes(element, r) ==
    IF element.isStr THEN EqualIgnoringCase(element.s, r.sym) ELSE element.n = r.Z

\* the identifier, lower-cased if a string, is not a key of the table
Invalid(element) ==
    (IF element.isStr THEN StrId(lower(element.s)) ELSE element) \notin OTHER_VAL_keys

\* C5: Element(identifier) with an identifier that is not in the reference
\* table raises KeyError (UnknownElement) and produces no Element and no
\* lookup.
C5_UnknownElement ==
    [][(last'.op = "Element" /\ Invalid(last'.ident)) =>
          /\ last'.status = "KeyError"
          /\ elems' = elems
          /\ wraps' = wraps
          /\ cswraps' = cswraps]_vars

\* a failed construction from a string, after an Element was constructed
C5_Witness ==
    /\ last.op = "Element" /\ last.status = "KeyError"
    /\ last.ident = StrId(<<"2","6">>)
    /\ elems # <<>>

\* C6: Element(identifier) with the symbol of a table row in any letter
\* case, or with its atomic number, succeeds and yields that row's symbol,
\* atomic number, mass and density; so every identifier of the row yields an
\* Element equal (==) to it with the same name, mass and density.
C6_SymbolOrNumber ==
    last.op = "Element" =>
        \A r \in ElementRows :
            Denotes(last.ident, r) =>
                /\ last.status = "ok"
                /\ elems # <<>>
                /\ LET e == elems[Len(elems)]
                   IN /\ e.z = r.Z /\ e.name = r.sym
                      /\ e.mass = r.mass /\ e.density = r.rho
                      /\ \A other \in Idents :
                            Denotes(other, r) =>
                                LET o == Element_init(other, 0)
                                IN /\ o.status = "ok"
                                   /\ Element_eq(e, o.self[1])
                                   /\ Element_eq(o.self[1], e)
                                   /\ o.self[1].name = e.name
                                   /\ o.self[1].mass = e.mass
                                   /\ o.self[1].density = e.density

\* an Element constructed from an upper-case symbol, held next to another
\* Element of the same atomic number
C6_Witness ==
    /\ last.op = "Element" /\ last.status = "ok"
    /\ last.ident = StrId(<<"C","U">>)
    /\ Len(elems) > 1
    /\ elems[1].z = elems[Len(elems)].z

(* ------------------------------- C7 ------------------------------------ *)
\* list.sort() of a list of Elements: insertion by <
RECURSIVE InsertElement(_, _)
InsertElement(x, t) ==
    IF t = <<>> THEN <<x>>
    ELSE IF Element_lt(x, Head(t)) THEN <<x>> \o t
    ELSE <<Head(t)>> \o InsertElement(x, Tail(t))

RECURSIVE SortElements(_)
SortElements(t) ==
    IF t = <<>> THEN <<>> ELSE InsertElement(Head(t), SortElements(Tail(t)))

\* C7: == and < compare atomic numbers, <=, > and >= agree with them, the
\* order is total (exactly one of a < b, a == b, b < a) and transitive, and
\* sorting Elements with it puts them in increasing atomic number.
C7_OrderByAtomicNumber ==
    /\ \A a, b \in Range(elems) :
          /\ Element_eq(a, b) <=> a.z = b.z
          /\ Element_lt(a, b) <=> a.z < b.z
          /\ Element_le(a, b) <=> a.z <= b.z
          /\ Element_gt(a, b) <=> a.z > b.z
          /\ Element_ge(a, b) <=> a.z >= b.z
          /\ \/ Element_lt(a, b) /\ ~Element_eq(a, b) /\ ~Element_lt(b, a)
             \/ ~Element_lt(a, b) /\ Element_eq(a, b) /\ ~Element_lt(b, a)
             \/ ~Element_lt(a, b) /\ ~Element_eq(a, b) /\ Element_lt(b, a)
    /\ \A a, b, c \in Range(elems) :
          /\ (Element_lt(a, b) /\ Element_lt(b, c)) => Element_lt(a, c)
          /\ (Element_le(a, b) /\ Element_le(b, c)) => Element_le(a, c)
          /\ (Element_eq(a, b) /\ Element_eq(b, c)) => Element_eq(a, c)
    /\ LET t == SortElements(elems)
       IN /\ Len(t) = Len(elems)
          /\ \A z \in {r.Z : r \in ElementRows} :
                Cardinality({n \in DOMAIN t : t[n].z = z})
                   = Cardinality({n \in DOMAIN elems : elems[n].z = z})
          /\ \A n, m \in DOMAIN t : n < m => t[n].z <= t[m].z
    /\ last.op = "compare" =>
          LET a == elems[last.self]
              b == elems[last.other]
          IN last.cmp = << a.z = b.z, a.z < b.z, a.z <= b.z, a.z > b.z, a.z >= b.z >>

\* three Elements of three atomic numbers, held in an order that is neither
\* the order of the atomic numbers nor the order of the names, and a
\* comparison that put the Element with the greater name first
C7_Witness ==
    /\ Len(elems) = 3
    /\ elems[1].z > elems[2].z /\ elems[2].z < elems[3].z /\ elems[1].z < elems[3].z
    /\ SortElements(elems) # elems
    /\ last.op = "compare"
    /\ last.cmp[2]
    /\ StrLess(elems[last.other].name, elems[last.self].name)

(* ------------------------------- C9 ------------------------------------ *)
\* the category each lookup attribute of an Element is constructed with
CategoryOf(attr) ==
    CASE attr = "emission_line" -> "lines"
      [] attr = "bind_energy"   -> "binding_e"
      [] attr = "jump_factor"   -> "jump"
      [] attr = "fluor_yield"   -> "yield"

\* C9: no operation changes an Element that exists: its name, atomic
\* number, mass and density, the references to its four lookups and those
\* lookups themselves stay as they are, and each lookup is bound to the
\* Element's atomic number and to the category of its attribute.
C9_ElementImmutable ==
    [][\A i \in DOMAIN elems :
          /\ i \in DOMAIN elems'
          /\ elems'[i] = elems[i]
          /\ \A attr \in Attrs :
                /\ elems[i][attr] \in DOMAIN wraps
                /\ wraps'[elems[i][attr]] = wraps[elems[i][attr]]
                /\ wraps[elems[i][attr]].element = elems[i].z
                /\ wraps[elems[i][attr]].info_type = CategoryOf(attr)
                /\ wraps[elems[i][attr]].cls = "XrayLibWrap"
                /\ \A k \in DOMAIN elems, other \in Attrs :
                      elems[k][other] = elems[i][attr] => (k = i /\ other = attr)]_vars

\* a state reached through a second construction, a cs() and an assignment
\* of a new incident energy
C9_Witness ==
    /\ Len(elems) = 2
    /\ elems[1].z # elems[2].z
    /\ last.op = "set_incident_energy"
    /\ last.args[1] # last.args[2]

====
